---------------------------- MODULE Spec2Model ----------------------------
(***************************************************************************)
(* Model of djazzy_rust: the route-name extractor (lib.rs) and the         *)
(* incremental project scan with its on-disk cache (main.rs).              *)
(*                                                                         *)
(* Text is modelled as a sequence of one-character strings, so that the    *)
(* byte-level operations of the extractor (contains, split, trim_matches)  *)
(* are computed as the code computes them.  A syntax tree is a record      *)
(* [kind, text, children]; text is the source slice of the node's byte     *)
(* range for the node kinds whose text the code reads.  Anonymous token    *)
(* nodes (parentheses, commas, the "=" sign) are leaves of kinds no branch *)
(* of the code tests and are left out of the children sequences.           *)
(***************************************************************************)
EXTENDS Integers, Sequences, FiniteSets, TLC

VARIABLES
    \* ---- extractor (lib.rs) ----
    xfile,      \* the file handed to extract_url_patterns
    xpc,        \* "start" | "walk" | "done"
    stack,      \* extract_from_tree: the worklist
    patterns,   \* extract_from_tree: the output vector
    visited,    \* history: the nodes popped so far, in pop order
    attempts,   \* history: the nodes handed to extract_pattern_name
    \* ---- project scan (main.rs) ----
    dirs,       \* filesystem: directory path -> "dir" | "noread"
    files,      \* filesystem: file path -> [kind, content, mtime]
    clock,      \* filesystem time of the latest modification
    cacheFile,  \* <project_root>/.djazzy_cache.json on disk
    pc,         \* "idle" | "scan" | "done"
    cache,      \* main: the in-memory Cache
    todo,       \* find_urls_py_files: directory entries still to examine
    results,    \* find_urls_py_files: the results maps, merged
    exitCode,   \* process exit status of the last run (-1: none yet)
    fault,      \* history: what ended the run ("none" while it has not ended)
    runs,       \* number of runs started
    loaded,     \* history: cache.urls as load_from_file returned it
    fileAtStart,\* history: the cache file when the run started
    writes,     \* history: writes to the cache file in this run
    reads,      \* history: reads of the cache file in this run
    extracted,  \* history: the paths the extractor was called on in this run
    statted,    \* history: path -> what the file was when this run read its
                \* modification time
    settled,    \* history: the cache file is the one the latest completed
                \* scan wrote, and the filesystem is as that scan saw it
    cleanStart  \* history: settled, as it was when the run started

xvars == <<xfile, xpc, stack, patterns, visited, attempts>>
svars == <<dirs, files, clock, cacheFile, pc, cache, todo, results, exitCode,
           fault, runs, loaded, fileAtStart, writes, reads, extracted, statted,
           settled, cleanStart>>
vars == <<xvars, svars>>

---------------------------------------------------------------------------
(* Bounds *)

\* most arguments in the argument list of a generated call
MaxArgs == 2
\* most calls in the urlpatterns list of a generated multi-call file
MaxCalls == 3
\* most filesystem events (writes, rewrites, deletions, renames, damage to
\* the cache file) in a behaviour
MaxEvents == 2
\* most runs of the program in a behaviour
MaxRuns == 2

---------------------------------------------------------------------------
(* Text *)

DQ == "\""
SQ == "'"

Some(x) == <<x>>
None == <<>>

\* str::contains(pat)
Contains(text, pat) ==
    \E i \in 1..(Len(text) - Len(pat) + 1) :
        SubSeq(text, i, i + Len(pat) - 1) = pat

RECURSIVE SplitFrom(_, _, _, _)
SplitFrom(text, ch, cur, acc) ==
    IF text = <<>> THEN Append(acc, cur)
    ELSE IF Head(text) = ch THEN SplitFrom(Tail(text), ch, <<>>, Append(acc, cur))
    ELSE SplitFrom(Tail(text), ch, Append(cur, Head(text)), acc)

\* str::split(ch).collect(): one part more than there are separators
Split(text, ch) == SplitFrom(text, ch, <<>>, <<>>)

\* the closure |c| c == '"' || c == '\''
IsQuote(c) == c = DQ \/ c = SQ

RECURSIVE TrimStart(_)
TrimStart(text) ==
    IF text # <<>> /\ IsQuote(Head(text)) THEN TrimStart(Tail(text)) ELSE text

RECURSIVE TrimEnd(_)
TrimEnd(text) ==
    IF text # <<>> /\ IsQuote(text[Len(text)])
    THEN TrimEnd(SubSeq(text, 1, Len(text) - 1))
    ELSE text

\* str::trim_matches(IsQuote): every leading and every trailing match goes
TrimMatches(text) == TrimEnd(TrimStart(text))

---------------------------------------------------------------------------
(* Extractor: lib.rs *)

T_path == <<"p", "a", "t", "h">>
T_re_path == <<"r", "e", "_", "p", "a", "t", "h">>
T_include == <<"i", "n", "c", "l", "u", "d", "e">>
T_urls == <<"u", "r", "l", "s">>
T_name == <<"n", "a", "m", "e">>
T_rename == <<"r", "e", "n", "a", "m", "e">>
T_view == <<"v", "i", "e", "w">>
T_nameEq == <<"n", "a", "m", "e", "=">>

FUNCTION_CALLS == <<T_path, T_re_path>>

InArray(arr, x) == \E i \in 1..Len(arr) : arr[i] = x

\* lines 60-67: one keyword argument's effect on name_arg
KeywordArg(arg, name_arg) ==
    IF Contains(arg.text, T_nameEq)
    THEN LET parts == Split(arg.text, "=")
         IN  IF Len(parts) = 2 THEN Some(TrimMatches(parts[2])) ELSE name_arg
    ELSE name_arg

\* lines 59-69: the loop over the children of the argument list
RECURSIVE ArgLoop(_, _, _)
ArgLoop(args, i, name_arg) ==
    IF i > Len(args) THEN name_arg
    ELSE ArgLoop(args, i + 1,
                 IF args[i].kind = "keyword_argument"
                 THEN KeywordArg(args[i], name_arg)
                 ELSE name_arg)

\* lines 52-71: the loop over the children of the call node
RECURSIVE ChildLoop(_, _, _)
ChildLoop(children, i, acc) ==
    IF i > Len(children) THEN acc
    ELSE LET child == children[i]
         IN  ChildLoop(children, i + 1,
                IF child.kind = "identifier"
                THEN IF InArray(FUNCTION_CALLS, child.text)
                     THEN [acc EXCEPT !.func_name = Some(child.text)]
                     ELSE acc
                ELSE IF child.kind = "argument_list"
                THEN [acc EXCEPT !.name_arg = ArgLoop(child.children, 1, @)]
                ELSE acc)

\* the callee test of line 73 left out
extract_pattern_name_AnyCallee(node) ==
    ChildLoop(node.children, 1, [func_name |-> None, name_arg |-> None]).name_arg

extract_pattern_name(node) ==
    LET r == ChildLoop(node.children, 1, [func_name |-> None, name_arg |-> None])
    IN  IF r.func_name # None /\ r.name_arg # None THEN r.name_arg ELSE None

\* lines 36-45: one iteration of the worklist loop, on a nonempty stack
LoopPatterns(stk, pats) ==
    LET node == stk[Len(stk)]
    IN  IF node.kind = "call" /\ extract_pattern_name(node) # None
        THEN Append(pats, extract_pattern_name(node)[1])
        ELSE pats

\* lines 37-38: the nodes extract_pattern_name is called on
LoopAttempts(stk, att) ==
    LET node == stk[Len(stk)]
    IN  IF node.kind = "call" THEN Append(att, node) ELSE att

RECURSIVE Reverse(_)
Reverse(seq) ==
    IF seq = <<>> THEN <<>> ELSE Append(Reverse(Tail(seq)), Head(seq))

\* the children pushed last to first, so that the first is popped first
LoopStack_Reversed(stk) ==
    SubSeq(stk, 1, Len(stk) - 1) \o Reverse(stk[Len(stk)].children)

\* a call's children not pushed: the calls nested in it are never popped
LoopStack_SkipCallChildren(stk) ==
    LET node == stk[Len(stk)]
    IN  SubSeq(stk, 1, Len(stk) - 1)
        \o (IF node.kind = "call" THEN <<>> ELSE node.children)

LoopStack(stk) ==
    LET node == stk[Len(stk)]
    IN  SubSeq(stk, 1, Len(stk) - 1) \o node.children

RECURSIVE WorkLoop(_, _)
WorkLoop(stk, pats) ==
    IF stk = <<>> THEN pats
    ELSE WorkLoop(LoopStack(stk), LoopPatterns(stk, pats))

extract_from_tree(tree, pats) == WorkLoop(<<tree>>, pats)

\* file: what the path holds; read is the outcome of fs::read_to_string,
\* parse that of Parser::parse
extract_url_patterns(file) ==
    IF file.read # "ok" THEN <<>>
    ELSE IF file.parse # "tree" THEN <<>>
    ELSE extract_from_tree(file.tree, <<>>)

---------------------------------------------------------------------------
(* Syntax trees handed to the extractor *)

Node(kind, text, children) == [kind |-> kind, text |-> text, children |-> children]

RECURSIVE JoinText(_, _)
JoinText(nodes, i) ==
    IF i > Len(nodes) THEN <<>>
    ELSE nodes[i].text \o (IF i < Len(nodes) THEN <<",">> ELSE <<>>)
         \o JoinText(nodes, i + 1)

Ident(t) == Node("identifier", t, <<>>)
Str(t) == Node("string", t, <<>>)
Attribute(obj, attr) ==
    Node("attribute", obj \o <<".">> \o attr, <<Ident(obj), Ident(attr)>>)
KwArg(key, value) ==
    Node("keyword_argument", key \o <<"=">> \o value.text, <<Ident(key), value>>)
ArgList(args) ==
    Node("argument_list", <<"(">> \o JoinText(args, 1) \o <<")">>, args)
Call(fn, args) ==
    Node("call", fn.text \o ArgList(args).text, <<fn, ArgList(args)>>)
\* path(x for x in y): the arguments of the call are a generator expression
GenCall(fn) ==
    Node("call", fn.text \o <<"(", "g", ")">>,
         <<fn, Node("generator_expression", <<"(", "g", ")">>, <<>>)>>)
\* the module, with the calls as the elements of the urlpatterns list
Module(calls) == Node("module", <<>>, <<Node("list", <<>>, calls)>>)

L_x == <<DQ, "x", DQ>>
L_h == <<DQ, "h", DQ>>
L_p == <<SQ, "p", SQ>>
L_n == <<DQ, "n", DQ>>
L_r == <<DQ, "r", DQ>>
\* "'q'": a double-quoted literal whose value is 'q'
L_q == <<DQ, SQ, "q", SQ, DQ>>
\* "a=b"
L_ab == <<DQ, "a", "=", "b", DQ>>

InnerCall == Call(Ident(T_path), <<KwArg(T_name, Str(L_n))>>)

ArgChoices ==
    { Str(L_x),
      KwArg(T_name, Str(L_h)),
      KwArg(T_name, Str(L_p)),
      KwArg(T_name, Str(L_q)),
      KwArg(T_name, Str(L_ab)),
      KwArg(T_rename, Str(L_r)),
      KwArg(T_view, InnerCall),
      Call(Ident(T_include), <<Str(L_x)>>) }

ArgSeqs == UNION { [1..n -> ArgChoices] : n \in 0..MaxArgs }

Callees == { Ident(T_path), Ident(T_re_path), Ident(T_include),
             Attribute(T_urls, T_path) }

RichCalls == { Call(f, a) : f \in Callees, a \in ArgSeqs }
             \cup { GenCall(Ident(T_path)) }

SimpleCalls ==
    { Call(Ident(T_path), <<Str(L_x), KwArg(T_name, Str(L_h))>>),
      Call(Ident(T_re_path), <<KwArg(T_name, Str(L_p))>>),
      Call(Ident(T_path), <<Str(L_x), Call(Ident(T_include), <<Str(L_x)>>)>>) }

CallSeqs == UNION { [1..n -> SimpleCalls] : n \in 0..MaxCalls }

SourceFile(tree) == [read |-> "ok", parse |-> "tree", tree |-> tree]
\* read_to_string fails: missing, unreadable or not UTF-8
Unreadable == [read |-> "err", parse |-> "none", tree |-> Module(<<>>)]
\* Parser::parse returns None
Unparsed == [read |-> "ok", parse |-> "none", tree |-> Module(<<>>)]

Inputs ==
    { SourceFile(Module(<<c>>)) : c \in RichCalls }
    \cup { SourceFile(Module(s)) : s \in CallSeqs }
    \cup { Unreadable, Unparsed }

---------------------------------------------------------------------------
(* The extractor, step by step *)

\* lines 9-34: read, parse, and the worklist seeded with the root
ExtractStart ==
    /\ xpc = "start"
    /\ IF xfile.read = "ok" /\ xfile.parse = "tree"
       THEN /\ stack' = <<xfile.tree>>
            /\ xpc' = "walk"
       ELSE /\ stack' = <<>>
            /\ xpc' = "done"
    /\ patterns' = <<>>
    /\ UNCHANGED <<xfile, visited, attempts, svars>>

\* lines 36-45: one iteration of while let Some(node) = stack.pop()
LoopIter ==
    /\ xpc = "walk"
    /\ stack # <<>>
    /\ patterns' = LoopPatterns(stack, patterns)
    /\ stack' = LoopStack(stack)
    /\ visited' = Append(visited, stack[Len(stack)])
    /\ attempts' = LoopAttempts(stack, attempts)
    /\ UNCHANGED <<xfile, xpc, svars>>

\* line 36 with the stack empty, then lines 27-28
LoopExit ==
    /\ xpc = "walk"
    /\ stack = <<>>
    /\ xpc' = "done"
    /\ UNCHANGED <<xfile, stack, patterns, visited, attempts, svars>>

ExtractNext == ExtractStart \/ LoopIter \/ LoopExit

---------------------------------------------------------------------------
(* Filesystem.  A path is the sequence of its components below the project *)
(* root; every name used is valid UTF-8, for which to_string_lossy returns *)
(* the path's own text, so a path is its own cache key.                    *)

Root == <<>>
CachePath == <<".djazzy_cache.json">>

DirPaths == { Root, <<"app">>, <<".venv">>, <<"app", "migrations">> }
FilePaths == { <<"urls.py">>, <<"app", "urls.py">>, <<".venv", "urls.py">>,
               <<"app", "migrations", "urls.py">> }

Basename(p) == p[Len(p)]
Parent(p) == SubSeq(p, 1, Len(p) - 1)

FILE_TYPES == <<"urls.py">>
IGNORED_DIRS == <<".venv", "node_modules", "__pycache__", "migrations">>

\* file contents, by name
Contents == {"one", "two", "bad"}
ContentOf(c) ==
    CASE c = "one" -> SourceFile(Module(
             <<Call(Ident(T_path), <<Str(L_x), KwArg(T_name, Str(L_h))>>)>>))
      [] c = "two" -> SourceFile(Module(
             <<Call(Ident(T_path), <<Str(L_x), KwArg(T_name, Str(L_h))>>),
               Call(Ident(T_re_path), <<KwArg(T_name, Str(L_p))>>)>>))
      [] OTHER -> Unreadable

NoFile == [kind |-> "none", content |-> "bad", mtime |-> 0]

\* a directory is "dir", "noread" (read_dir fails on it) or "none"; a
\* directory exists only inside an existing one
DirConfigs ==
    { d \in [DirPaths -> {"none", "dir", "noread"}] :
        /\ d[<<".venv">>] # "noread"
        /\ d[<<"app", "migrations">>] # "noread"
        /\ \A p \in DirPaths \ {Root} : d[p] # "none" => d[Parent(p)] # "none" }

\* the directories of the project whose cache file an earlier version wrote
UpgradedTree ==
    [p \in DirPaths |-> IF p \in {Root, <<"app">>} THEN "dir" ELSE "none"]

\* Path::is_dir
IsDir(p) == p \in DirPaths /\ dirs[p] # "none"

\* the entries fs::read_dir yields for directory d
Entries(d) ==
    { p \in DirPaths \ {Root} : Parent(p) = d /\ dirs[p] # "none" }
    \cup { p \in FilePaths : Parent(p) = d /\ files[p].kind # "none" }
    \cup (IF d = Root /\ cacheFile.kind # "absent" THEN {CachePath} ELSE {})

\* fs::read_to_string(path)
ReadToString(p) ==
    IF files[p].kind = "file" THEN ContentOf(files[p].content) ELSE Unreadable

\* wall-clock time: it moves on with every filesystem event and every run
Now == clock + runs

---------------------------------------------------------------------------
(* Cache: main.rs lines 19-54 *)

CARGO_PKG_VERSION == "pkg"

EmptyMap == <<>>

\* HashMap::insert
MapInsert(m, k, v) == [x \in DOMAIN m \cup {k} |-> IF x = k THEN v ELSE m[x]]

\* the entries already in the map win over those extended with
MapExtend_KeepOld(m, n) ==
    [x \in DOMAIN m \cup DOMAIN n |-> IF x \in DOMAIN m THEN m[x] ELSE n[x]]

\* the map replaced by the one extended with
MapExtend_Replace(m, n) == n

\* HashMap::extend
MapExtend(m, n) ==
    [x \in DOMAIN m \cup DOMAIN n |-> IF x \in DOMAIN n THEN n[x] ELSE m[x]]

CacheNew(urls) ==
    [urls |-> urls, last_modified_at |-> Now, version |-> CARGO_PKG_VERSION]

NoCacheFile ==
    [kind |-> "absent", urls |-> EmptyMap, last_modified_at |-> 0, version |-> ""]
\* a cache file that is not a JSON document of the Cache schema
BrokenCacheFile ==
    [kind |-> "broken", urls |-> EmptyMap, last_modified_at |-> 0, version |-> ""]
\* serde_json::to_string_pretty(cache), written whole
Serialized(c) ==
    [kind |-> "valid", urls |-> c.urls, last_modified_at |-> c.last_modified_at,
     version |-> c.version]

\* the cache file a producer of an earlier version left: it scanned a tree
\* without a selected file
OlderCacheFile ==
    [kind |-> "valid", urls |-> EmptyMap, last_modified_at |-> 0,
     version |-> "older"]

\* the value of cache while no process holds one
NoCache ==
    [urls |-> EmptyMap, last_modified_at |-> 0, version |-> CARGO_PKG_VERSION]

\* whatever entries can be made out in the file are taken
load_from_file_Lenient(f) ==
    IF f.kind # "absent"
    THEN [urls |-> f.urls, last_modified_at |-> f.last_modified_at,
          version |-> CARGO_PKG_VERSION]
    ELSE CacheNew(EmptyMap)

load_from_file(f) ==
    IF f.kind = "valid"
    THEN [urls |-> f.urls, last_modified_at |-> f.last_modified_at,
          version |-> f.version]
    ELSE CacheNew(EmptyMap)

---------------------------------------------------------------------------
(* Scan: main.rs lines 56-120 *)

\* lines 65-66: the name test of the ignored-directory skip
IsIgnored_LessOne(p) == InArray(SubSeq(IGNORED_DIRS, 1, 3), Basename(p))

IsIgnored(p) == InArray(IGNORED_DIRS, Basename(p))

\* the cache is never consulted
Reuses_Never(existing_cache, p) == FALSE

\* lines 78-79: the cached entry has the file's modification time
Reuses(existing_cache, p) ==
    /\ p \in DOMAIN existing_cache
    /\ existing_cache[p].mtime = files[p].mtime

\* lines 86-91
NewEntry(p, modified_time) ==
    [patterns |-> extract_url_patterns(ReadToString(p)), mtime |-> modified_time]

\* a file that yields no pattern is left out of the results
ProcessFile_SkipEmpty(res, existing_cache, p) ==
    LET modified_time == files[p].mtime
    IN  IF p \in DOMAIN existing_cache /\ existing_cache[p].mtime = modified_time
        THEN MapInsert(res, p, existing_cache[p])
        ELSE IF NewEntry(p, modified_time).patterns = <<>> THEN res
        ELSE MapInsert(res, p, NewEntry(p, modified_time))

\* the entry stamped with the time of the scan
ProcessFile_StampNow(res, existing_cache, p) ==
    LET modified_time == files[p].mtime
    IN  IF p \in DOMAIN existing_cache /\ existing_cache[p].mtime = modified_time
        THEN MapInsert(res, p, existing_cache[p])
        ELSE MapInsert(res, p, NewEntry(p, Now))

\* lines 75-92: results after a selected file whose metadata could be read
ProcessFile(res, existing_cache, p) ==
    LET modified_time == files[p].mtime
    IN  IF Reuses(existing_cache, p)
        THEN MapInsert(res, p, existing_cache[p])
        ELSE MapInsert(res, p, NewEntry(p, modified_time))

Idle == pc \in {"idle", "done"}

\* the process ends without having touched the cache file
EndRun(code, why) ==
    /\ pc' = "done"
    /\ exitCode' = code
    /\ fault' = why
    /\ UNCHANGED <<dirs, files, clock, cacheFile, writes, settled>>

\* the usage error reported with status 0
StartNoArg_ExitZero ==
    /\ Idle
    /\ runs < MaxRuns
    /\ runs' = runs + 1
    /\ cache' = NoCache
    /\ loaded' = EmptyMap
    /\ todo' = {}
    /\ results' = EmptyMap
    /\ fileAtStart' = cacheFile
    /\ cleanStart' = settled
    /\ writes' = 0
    /\ reads' = 0
    /\ extracted' = {}
    /\ statted' = EmptyMap
    /\ pc' = "done"
    /\ exitCode' = 0
    /\ fault' = "usage"
    /\ UNCHANGED <<dirs, files, clock, cacheFile, settled>>
    /\ UNCHANGED xvars

\* lines 101-105: no project root argument
StartNoArg ==
    /\ Idle
    /\ runs < MaxRuns
    /\ runs' = runs + 1
    /\ cache' = NoCache
    /\ loaded' = EmptyMap
    /\ todo' = {}
    /\ results' = EmptyMap
    /\ fileAtStart' = cacheFile
    /\ cleanStart' = settled
    /\ writes' = 0
    /\ reads' = 0
    /\ extracted' = {}
    /\ statted' = EmptyMap
    /\ pc' = "done"
    /\ exitCode' = 1
    /\ fault' = "usage"
    /\ UNCHANGED <<dirs, files, clock, cacheFile, settled>>
    /\ UNCHANGED xvars

\* lines 101-112 and 57-59: the cache loaded, the scan entered at the root
Start ==
    /\ Idle
    /\ runs < MaxRuns
    /\ runs' = runs + 1
    /\ cache' = load_from_file(cacheFile)
    /\ loaded' = cache'.urls
    /\ todo' = IF IsDir(Root) THEN {Root} ELSE {}
    /\ results' = EmptyMap
    /\ fileAtStart' = cacheFile
    /\ cleanStart' = settled
    /\ writes' = 0
    /\ reads' = 1
    /\ extracted' = {}
    /\ statted' = EmptyMap
    /\ pc' = "scan"
    /\ exitCode' = -1
    /\ fault' = "none"
    /\ UNCHANGED <<dirs, files, clock, cacheFile, settled>>
    /\ UNCHANGED xvars

\* lines 65-68: an ignored directory is passed over
SkipIgnored(p) ==
    /\ pc = "scan"
    /\ p \in todo
    /\ p # Root /\ IsDir(p) /\ IsIgnored(p)
    /\ todo' = todo \ {p}
    /\ UNCHANGED <<dirs, files, clock, cacheFile, pc, cache, results, exitCode,
                   fault, runs, loaded, fileAtStart, writes, reads, extracted,
                   statted, settled, cleanStart>>
    /\ UNCHANGED xvars

\* lines 59-61 and 70-71: a directory is entered; read_dir(..).unwrap()
Descend(p) ==
    /\ pc = "scan"
    /\ p \in todo
    /\ IsDir(p) /\ ~(p # Root /\ IsIgnored(p))
    /\ IF dirs[p] = "noread"
       THEN /\ EndRun(101, "read_dir")
            /\ UNCHANGED <<todo>>
       ELSE /\ todo' = (todo \ {p}) \cup Entries(p)
            /\ UNCHANGED <<dirs, files, clock, cacheFile, pc, exitCode, fault,
                           writes, settled>>
    /\ UNCHANGED <<cache, results, runs, loaded, fileAtStart, reads, extracted,
                   statted, cleanStart>>
    /\ UNCHANGED xvars

\* lines 72-73: a file whose name is not in FILE_TYPES
SkipOther(p) ==
    /\ pc = "scan"
    /\ p \in todo
    /\ ~IsDir(p) /\ ~InArray(FILE_TYPES, Basename(p))
    /\ todo' = todo \ {p}
    /\ UNCHANGED <<dirs, files, clock, cacheFile, pc, cache, results, exitCode,
                   fault, runs, loaded, fileAtStart, writes, reads, extracted,
                   statted, settled, cleanStart>>
    /\ UNCHANGED xvars

\* the file as it is when line 74 reads its metadata
StatOf(p) == [content |-> files[p].content, mtime |-> files[p].mtime]

\* lines 73-92: a selected file; fs::metadata(..).expect(..)
ScanFile(p) ==
    /\ pc = "scan"
    /\ p \in todo
    /\ ~IsDir(p) /\ InArray(FILE_TYPES, Basename(p))
    /\ IF files[p].kind # "file"
       THEN /\ EndRun(101, "metadata")
            /\ UNCHANGED <<todo, results, extracted, statted>>
       ELSE /\ results' = ProcessFile(results, cache.urls, p)
            /\ extracted' = IF Reuses(cache.urls, p) THEN extracted
                            ELSE extracted \cup {p}
            /\ statted' = MapInsert(statted, p, StatOf(p))
            /\ todo' = todo \ {p}
            /\ UNCHANGED <<dirs, files, clock, cacheFile, pc, exitCode, fault,
                           writes, settled>>
    /\ UNCHANGED <<cache, runs, loaded, fileAtStart, reads, cleanStart>>
    /\ UNCHANGED xvars

\* lines 74-92 with the file rewritten by another process after line 74 has
\* read its modification time and before read_to_string (lib.rs line 12)
\* reads its content: the entry has the time read first and the patterns of
\* the content read second
ScanFileRaced(p, c) ==
    /\ pc = "scan"
    /\ p \in todo
    /\ ~IsDir(p) /\ InArray(FILE_TYPES, Basename(p))
    /\ files[p].kind = "file"
    /\ ~Reuses(cache.urls, p)
    /\ clock < MaxEvents
    /\ files[p].content # c
    /\ clock' = clock + 1
    /\ files' = [files EXCEPT ![p] = [kind |-> "file", content |-> c,
                                      mtime |-> clock + 1]]
    /\ results' = MapInsert(results, p,
                            [patterns |-> extract_url_patterns(ContentOf(c)),
                             mtime |-> files[p].mtime])
    /\ extracted' = extracted \cup {p}
    /\ statted' = MapInsert(statted, p, StatOf(p))
    /\ todo' = todo \ {p}
    /\ UNCHANGED <<dirs, cacheFile, pc, cache, exitCode, fault, runs, loaded,
                   fileAtStart, writes, reads, settled, cleanStart>>
    /\ UNCHANGED xvars

\* the outcomes of fs::write(cache_path, ..): File::create, then write_all
WriteOutcomes ==
    IF IsDir(Root) THEN {"ok", "create_failed", "write_failed"}
    ELSE {"create_failed"}

\* lines 114-119 and 50-53: merge, stamp, save
Finish(outcome) ==
    /\ pc = "scan"
    /\ todo = {}
    /\ outcome \in WriteOutcomes
    /\ cache' = [cache EXCEPT !.urls = MapExtend(cache.urls, results),
                              !.last_modified_at = Now]
    /\ pc' = "done"
    /\ CASE outcome = "ok" ->
              /\ cacheFile' = Serialized(cache')
              /\ writes' = writes + 1
              /\ exitCode' = 0
              /\ fault' = "none"
              /\ settled' = TRUE
         [] outcome = "create_failed" ->
              /\ exitCode' = 101
              /\ fault' = "cache_write"
              /\ UNCHANGED <<cacheFile, writes, settled>>
         [] OTHER ->
              \* the file was created or truncated, and not written whole
              /\ cacheFile' = BrokenCacheFile
              /\ writes' = writes + 1
              /\ exitCode' = 101
              /\ fault' = "cache_write"
              /\ settled' = FALSE
    /\ UNCHANGED <<dirs, files, clock, todo, results, runs, loaded, fileAtStart,
                   reads, extracted, statted, cleanStart>>
    /\ UNCHANGED xvars

---------------------------------------------------------------------------
(* The world between runs *)

\* no process is running: its memory is gone
AtRest ==
    /\ pc' = "idle"
    /\ cache' = NoCache
    /\ todo' = {}
    /\ results' = EmptyMap
    /\ exitCode' = -1
    /\ fault' = "none"
    /\ loaded' = EmptyMap
    /\ fileAtStart' = NoCacheFile
    /\ writes' = 0
    /\ reads' = 0
    /\ extracted' = {}
    /\ statted' = EmptyMap
    /\ cleanStart' = FALSE

Event ==
    /\ Idle
    /\ clock < MaxEvents
    /\ clock' = clock + 1
    /\ settled' = FALSE
    /\ AtRest
    /\ UNCHANGED <<dirs, cacheFile, runs>>
    /\ UNCHANGED xvars

\* a file is created or rewritten
WriteFile(p, c) ==
    /\ Event
    /\ dirs[Parent(p)] # "none"
    /\ files[p].kind # "dangling"
    /\ files' = [files EXCEPT ![p] = [kind |-> "file", content |-> c,
                                      mtime |-> clock + 1]]

\* a file is rewritten and its modification time stays what it was: the
\* rewrite falls within the timestamp granularity of the filesystem, or the
\* tool that rewrites it restores the time
RewriteKeepingMtime(p, c) ==
    /\ Event
    /\ files[p].kind = "file"
    /\ files[p].content # c
    /\ files' = [files EXCEPT ![p].content = c]

DeleteFile(p) ==
    /\ Event
    /\ files[p].kind # "none"
    /\ files' = [files EXCEPT ![p] = NoFile]

\* a file is renamed
MoveFile(p, q) ==
    /\ Event
    /\ files[p].kind # "none"
    /\ files[q].kind = "none"
    /\ dirs[Parent(q)] # "none"
    /\ files' = [files EXCEPT ![p] = NoFile, ![q] = files[p]]

\* a symbolic link to nothing is created: fs::metadata fails on it
LinkDangling(p) ==
    /\ Event
    /\ dirs[Parent(p)] # "none"
    /\ files[p].kind = "none"
    /\ files' = [files EXCEPT ![p] = [kind |-> "dangling", content |-> "bad",
                                      mtime |-> 0]]

\* the cache file is damaged (cut short, edited by hand, rewritten in
\* another schema): what it held is still there in part, but it is no
\* longer a JSON document of the Cache schema
DamageCache ==
    /\ Idle
    /\ clock < MaxEvents
    /\ cacheFile.kind = "valid"
    /\ clock' = clock + 1
    /\ cacheFile' = [cacheFile EXCEPT !.kind = "broken"]
    /\ settled' = FALSE
    /\ AtRest
    /\ UNCHANGED <<dirs, files, runs>>
    /\ UNCHANGED xvars

---------------------------------------------------------------------------
(* Specifications *)

ExtractAtRest ==
    /\ xfile = Unreadable
    /\ xpc = "done"
    /\ stack = <<>>
    /\ patterns = <<>>
    /\ visited = <<>>
    /\ attempts = <<>>

FilesAtRest == files = [p \in FilePaths |-> NoFile]

ProcessAtRest ==
    /\ clock = 0
    /\ runs = 0
    /\ settled = FALSE
    /\ pc = "idle"
    /\ cache = NoCache
    /\ todo = {}
    /\ results = EmptyMap
    /\ exitCode = -1
    /\ fault = "none"
    /\ loaded = EmptyMap
    /\ fileAtStart = NoCacheFile
    /\ writes = 0
    /\ reads = 0
    /\ extracted = {}
    /\ statted = EmptyMap
    /\ cleanStart = FALSE

\* a project the program has not run in yet, or the project UpgradedTree
\* in which a producer of an earlier version has run
Init ==
    /\ ExtractAtRest
    /\ \/ dirs \in DirConfigs /\ cacheFile = NoCacheFile
       \/ dirs = UpgradedTree /\ cacheFile = OlderCacheFile
    /\ FilesAtRest
    /\ ProcessAtRest

Next ==
    \/ StartNoArg
    \/ Start
    \/ \E p \in DirPaths : SkipIgnored(p)
    \/ \E p \in DirPaths : Descend(p)
    \/ \E p \in {CachePath} : SkipOther(p)
    \/ \E p \in FilePaths : ScanFile(p)
    \/ \E o \in {"ok", "create_failed", "write_failed"} : Finish(o)
    \/ \E p \in FilePaths, c \in Contents : WriteFile(p, c)
    \/ \E p \in FilePaths, c \in Contents : RewriteKeepingMtime(p, c)
    \/ \E p \in FilePaths : DeleteFile(p)
    \/ \E p \in FilePaths, q \in FilePaths : MoveFile(p, q)
    \/ \E p \in FilePaths : LinkDangling(p)
    \/ DamageCache

Spec == Init /\ [][Next]_vars

\* the scan beside a process that rewrites files while it runs
RaceNext ==
    \/ Next
    \/ \E p \in FilePaths, c \in Contents : ScanFileRaced(p, c)

RaceSpec == Init /\ [][RaceNext]_vars

ExtractInit ==
    /\ xfile \in Inputs
    /\ xpc = "start"
    /\ stack = <<>>
    /\ patterns = <<>>
    /\ visited = <<>>
    /\ attempts = <<>>
    /\ dirs = [p \in DirPaths |-> "none"]
    /\ FilesAtRest
    /\ cacheFile = NoCacheFile
    /\ ProcessAtRest

ExtractSpec == ExtractInit /\ [][ExtractNext]_vars

---------------------------------------------------------------------------
(* Properties of the extractor *)

RECURSIVE NodesOf(_)
NodesOf(n) == {n} \cup UNION { NodesOf(n.children[i]) : i \in 1..Len(n.children) }

RECURSIVE Preorder(_)
RECURSIVE PreorderAll(_, _)
\* a node, then its children's subtrees first to last: source order
Preorder(n) == <<n>> \o PreorderAll(n.children, 1)
PreorderAll(nodes, i) ==
    IF i > Len(nodes) THEN <<>>
    ELSE Preorder(nodes[i]) \o PreorderAll(nodes, i + 1)

RECURSIVE MirrorPreorder(_)
RECURSIVE MirrorPreorderAll(_, _)
\* a node, then its children's subtrees last to first
MirrorPreorder(n) == <<n>> \o MirrorPreorderAll(n.children, Len(n.children))
MirrorPreorderAll(nodes, i) ==
    IF i < 1 THEN <<>>
    ELSE MirrorPreorder(nodes[i]) \o MirrorPreorderAll(nodes, i - 1)

RECURSIVE NamesIn(_)
\* the names the calls of a node sequence yield, in the sequence's order
NamesIn(nodes) ==
    IF nodes = <<>> THEN <<>>
    ELSE (IF Head(nodes).kind = "call" THEN extract_pattern_name(Head(nodes))
          ELSE <<>>) \o NamesIn(Tail(nodes))

CountChar(text, ch) == Cardinality({ i \in 1..Len(text) : text[i] = ch })

HasRecognizedCallee(n) ==
    \E i \in 1..Len(n.children) :
        /\ n.children[i].kind = "identifier"
        /\ n.children[i].text \in {T_path, T_re_path}

\* a keyword argument whose text holds name= and exactly one "="
Recovers(arg) ==
    /\ arg.kind = "keyword_argument"
    /\ Contains(arg.text, T_nameEq)
    /\ CountChar(arg.text, "=") = 1

HasRecoveredName(n) ==
    \E i \in 1..Len(n.children) :
        /\ n.children[i].kind = "argument_list"
        /\ \E j \in 1..Len(n.children[i].children) :
               Recovers(n.children[i].children[j])

Yields(n) == n.kind = "call" /\ HasRecognizedCallee(n) /\ HasRecoveredName(n)

Parsed == xfile.read = "ok" /\ xfile.parse = "tree"

\* C8: the names pushed so far are one per examined call that has a
\* recognized identifier child and a keyword argument a name= literal is
\* recovered from, and none for any other node; a file none of whose calls
\* has a recognized identifier child yields the empty sequence.
C8_PerCallExtraction ==
    /\ Len(patterns) = Cardinality({ i \in 1..Len(visited) : Yields(visited[i]) })
    /\ \A i \in 1..Len(visited) :
          visited[i].kind = "call" =>
              (extract_pattern_name(visited[i]) # None <=> Yields(visited[i]))
    /\ (xpc = "done" /\ \A n \in NodesOf(xfile.tree) :
                            n.kind = "call" => ~HasRecognizedCallee(n))
          => patterns = <<>>

\* a finished walk that met a yielding call and a call to another
\* identifier carrying a recoverable name=
C8_Witness ==
    /\ xpc = "done"
    /\ Len(patterns) = 1
    /\ \E i \in 1..Len(visited) :
          /\ visited[i].kind = "call"
          /\ ~HasRecognizedCallee(visited[i])
          /\ HasRecoveredName(visited[i])

\* C9 as amended: the extractor returns the names in the order the worklist
\* pops the calls: a call before the calls nested in it, and the subtrees of
\* a node's children last child first.
C9_WorklistOrder ==
    (xpc = "done" /\ Parsed) => patterns = NamesIn(MirrorPreorder(xfile.tree))

\* C9 as stated: the names are in the order the calls occur in the source.
C9_SourceOrder ==
    (xpc = "done" /\ Parsed) => patterns = NamesIn(Preorder(xfile.tree))

\* a finished walk over two yielding calls with different names
C9_Witness ==
    /\ xpc = "done"
    /\ Len(patterns) >= 2
    /\ patterns[1] # patterns[2]

\* the source literal with its first and last character removed
StripOneLayer(lit) == SubSeq(lit, 2, Len(lit) - 1)

\* C10 as stated: every name yielded by an examined call is the value
\* literal of one of its name= keyword arguments with exactly one leading
\* and one trailing quote removed.
C10_OneQuoteLayer ==
    \A i \in 1..Len(visited) :
        (visited[i].kind = "call" /\ extract_pattern_name(visited[i]) # None) =>
            \E a \in NodesOf(visited[i]) :
                /\ Recovers(a)
                /\ extract_pattern_name(visited[i])[1]
                       = StripOneLayer(a.children[2].text)

IsNameKwArg(a) == a.kind = "keyword_argument" /\ Contains(a.text, T_nameEq)

IsArgList(c) == c.kind = "argument_list"

RECURSIVE Flatten(_)
Flatten(lists) ==
    IF lists = <<>> THEN <<>> ELSE Head(lists).children \o Flatten(Tail(lists))

\* the keyword arguments of a call whose text contains name=, in argument
\* order
NameKwArgs(n) == SelectSeq(Flatten(SelectSeq(n.children, IsArgList)), IsNameKwArg)

RECURSIVE AfterFirst(_, _)
\* the text to the right of the first occurrence of ch
AfterFirst(text, ch) ==
    IF text = <<>> THEN <<>>
    ELSE IF Head(text) = ch THEN Tail(text)
    ELSE AfterFirst(Tail(text), ch)

\* the literal the first "=" of a keyword argument's span leaves on its
\* right, quote-trimmed
LiteralOf(arg) == TrimMatches(AfterFirst(arg.text, "="))

\* C15 as stated: every examined call to path or re_path with a keyword
\* argument whose text contains name= yields a route name, and the name is
\* what follows the first "=" of such an argument's span, quote-trimmed,
\* also when the value itself contains "=".
C15_SplitOnFirstEq ==
    \A i \in 1..Len(visited) :
        (/\ visited[i].kind = "call"
         /\ HasRecognizedCallee(visited[i])
         /\ NameKwArgs(visited[i]) # <<>>) =>
            /\ extract_pattern_name(visited[i]) # None
            /\ \E j \in 1..Len(NameKwArgs(visited[i])) :
                   extract_pattern_name(visited[i])
                       = Some(LiteralOf(NameKwArgs(visited[i])[j]))

\* C16 as stated: an examined call to path or re_path with several keyword
\* arguments whose text contains name= yields the literal of the last of
\* them in argument order, whatever their values are.
C16_LastNameWins ==
    \A i \in 1..Len(visited) :
        (/\ visited[i].kind = "call"
         /\ HasRecognizedCallee(visited[i])
         /\ Len(NameKwArgs(visited[i])) >= 2) =>
            extract_pattern_name(visited[i])
                = Some(LiteralOf(NameKwArgs(visited[i])[Len(NameKwArgs(visited[i]))]))

IsCall(n) == n.kind = "call"

\* the number of nodes of a tree
Size(n) == Len(MirrorPreorder(n))

RECURSIVE SizeAll(_)
\* the number of nodes of the trees of a sequence
SizeAll(nodes) ==
    IF nodes = <<>> THEN 0 ELSE Size(Head(nodes)) + SizeAll(Tail(nodes))

\* C18: the worklist loop terminates and examines every node exactly once.
\* While the loop runs, the nodes popped and the nodes of the subtrees
\* still on the stack add up to the nodes of the tree, so each iteration
\* brings the loop one node nearer its end, and the extractor can take a
\* step until it has returned; when it has returned, the nodes popped are
\* the nodes of the tree, each once; and extract_pattern_name has been
\* called on exactly the popped nodes of category call, nested ones
\* included.
C18_WorklistTraversal ==
    /\ xpc = "walk" => Len(visited) + SizeAll(stack) = Size(xfile.tree)
    /\ xpc # "done" => ENABLED ExtractNext
    /\ (xpc = "done" /\ Parsed) => visited = MirrorPreorder(xfile.tree)
    /\ attempts = SelectSeq(visited, IsCall)

\* a finished walk that called extract_pattern_name on a call and on a call
\* nested in its arguments, over a tree with nodes of other categories
C18_Witness ==
    /\ xpc = "done"
    /\ Len(visited) > Len(attempts)
    /\ \E i, j \in 1..Len(attempts) :
          /\ i # j
          /\ attempts[j] \in NodesOf(attempts[i])

---------------------------------------------------------------------------
(* Properties of the scan *)

IgnoreSet == {".venv", "node_modules", "__pycache__", "migrations"}

\* some directory between the root and the file has an ignored name
UnderIgnored(p) == \E i \in 1..(Len(p) - 1) : p[i] \in IgnoreSet

\* the files the scan is to select
SelectedPaths ==
    { p \in FilePaths : /\ files[p].kind # "none"
                        /\ Basename(p) = "urls.py"
                        /\ ~UnderIgnored(p) }

\* the run scanned the whole tree and wrote the cache file
Completed == pc = "done" /\ exitCode = 0

\* the loaded cache holds the file with its present modification time
CacheHit(p) == p \in DOMAIN loaded /\ loaded[p].mtime = files[p].mtime

CannotExtract(p) ==
    ReadToString(p).read # "ok" \/ ReadToString(p).parse # "tree"

\* C1: a scan that starts from the cache file the previous scan wrote, with
\* no filesystem event in between, writes the urls map it loaded.
C1_ScanIdempotent ==
    (Completed /\ cleanStart) => cacheFile.urls = fileAtStart.urls

\* a second scan over an unchanged tree that holds a file with a route name
C1_Witness ==
    /\ Completed /\ cleanStart
    /\ \E p \in DOMAIN cacheFile.urls : cacheFile.urls[p].patterns # <<>>

\* C2: a selected file whose modification time differs from its cached
\* entry's has, in the written cache, the extractor's output for its present
\* content and its present modification time.
C2_UpdateOnChange ==
    Completed =>
        \A p \in SelectedPaths :
            (p \in DOMAIN loaded /\ loaded[p].mtime # files[p].mtime) =>
                /\ p \in DOMAIN cacheFile.urls
                /\ cacheFile.urls[p] =
                       [patterns |-> extract_url_patterns(ReadToString(p)),
                        mtime |-> files[p].mtime]

\* a rescan of a file rewritten with one route fewer
C2_Witness ==
    /\ Completed
    /\ \E p \in SelectedPaths :
          /\ p \in DOMAIN loaded
          /\ loaded[p].mtime # files[p].mtime
          /\ Len(loaded[p].patterns) = 2
          /\ Len(cacheFile.urls[p].patterns) = 1

\* C3: a scan from an empty cache writes one key for each urls.py that has
\* no ignored directory above it, and no other key.
C3_FileSelection ==
    (Completed /\ loaded = EmptyMap) => DOMAIN cacheFile.urls = SelectedPaths

\* a scan from an empty cache of a tree with a urls.py it selects and one
\* below an ignored directory that is not at the top
C3_Witness ==
    /\ Completed /\ loaded = EmptyMap
    /\ <<"app", "urls.py">> \in DOMAIN cacheFile.urls
    /\ files[<<"app", "migrations", "urls.py">>].kind = "file"

\* C4: the scan works on the map the cache file held, every key of it is in
\* the written map, and an entry whose path the scan does not select is
\* written as it was loaded.
C4_StalePreserved ==
    Completed =>
        /\ fileAtStart.kind = "valid" => loaded = fileAtStart.urls
        /\ DOMAIN loaded \subseteq DOMAIN cacheFile.urls
        /\ \A k \in DOMAIN loaded \ SelectedPaths : cacheFile.urls[k] = loaded[k]

\* a completed scan whose loaded cache had an entry for a file now gone
C4_Witness ==
    /\ Completed
    /\ \E k \in DOMAIN loaded : files[k].kind = "none"

\* C5 as stated: a selected file that cannot be read or parsed gets no new
\* or refreshed entry in the written cache.
C5_NotRecorded ==
    Completed =>
        \A p \in SelectedPaths :
            (CannotExtract(p) /\ ~CacheHit(p)) =>
                \/ p \notin DOMAIN cacheFile.urls
                \/ p \in DOMAIN loaded /\ cacheFile.urls[p] = loaded[p]

\* C5 as amended: a selected file that cannot be read or parsed is recorded
\* with an empty pattern list and the modification time the scan read.
C5_RecordedEmpty ==
    Completed =>
        \A p \in SelectedPaths :
            (CannotExtract(p) /\ ~CacheHit(p)) =>
                /\ p \in DOMAIN cacheFile.urls
                /\ cacheFile.urls[p] = [patterns |-> <<>>, mtime |-> files[p].mtime]

\* a completed scan that selected an unreadable file
C5_Witness ==
    /\ Completed
    /\ \E p \in SelectedPaths : CannotExtract(p) /\ ~CacheHit(p)

\* C6 as stated: the cache file is written at most once, not before the
\* scan has finished, and a run ends either with status 0 and a new cache
\* file or with a nonzero status and the cache file as it found it.
C6_WriteOnSuccess ==
    /\ writes <= 1
    /\ pc = "scan" => (writes = 0 /\ cacheFile = fileAtStart)
    /\ pc = "done" =>
          \/ exitCode = 0 /\ writes = 1 /\ cacheFile.kind = "valid"
          \/ exitCode # 0 /\ cacheFile = fileAtStart

\* C7 as stated: a run that ends for no other reason than what is wrong
\* with an individual file has scanned everything, written the cache and
\* exited with status 0.
C7_PerFileNeverFatal ==
    (pc = "done" /\ fault \notin {"usage", "read_dir", "cache_write"}) =>
        /\ exitCode = 0
        /\ writes = 1
        /\ todo = {}

\* C11: a run without the project root argument ends with status 1, having
\* neither read nor written the cache file, which is as the run found it;
\* status 1 is the status of that error only; and a run has status 0 only
\* when it has ended after writing the cache file, which then holds the
\* serialized cache.
C11_ExitProtocol ==
    /\ (pc = "done" /\ fault = "usage") =>
          /\ exitCode = 1
          /\ reads = 0
          /\ writes = 0
          /\ cacheFile = fileAtStart
    /\ exitCode = 1 => (pc = "done" /\ fault = "usage")
    /\ exitCode = 0 =>
          /\ pc = "done"
          /\ reads = 1
          /\ writes = 1
          /\ cacheFile = Serialized(cache)

\* a run without the argument that ended with status 1 beside the cache
\* file an earlier run wrote
C11_Witness ==
    /\ pc = "done"
    /\ exitCode = 1
    /\ fileAtStart.kind = "valid"
    /\ fileAtStart.urls # EmptyMap

\* C12: while the scan runs the cache map is the one that was loaded; and a
\* file in the results whose loaded entry has the file's modification time
\* was not handed to the extractor and has that entry, patterns and mtime,
\* as its result, whatever the file holds; the written cache has it too.
C12_CacheReuse ==
    /\ pc = "scan" => cache.urls = loaded
    /\ \A p \in DOMAIN results :
          CacheHit(p) =>
              /\ p \notin extracted
              /\ results[p] = loaded[p]
              /\ Completed => cacheFile.urls[p] = loaded[p]

\* a completed scan that reused the entry of a file whose content is no
\* longer the one the entry's patterns came from
C12_Witness ==
    /\ Completed
    /\ \E p \in DOMAIN results :
          /\ CacheHit(p)
          /\ results[p].patterns # extract_url_patterns(ReadToString(p))

\* C14: a run that finds the cache file absent or not a document of the
\* cache schema goes on to scan from an empty cache, the failed load being
\* no error; when it completes, the extractor was called on every selected
\* file, and the written urls map is the map of this scan's results: one
\* fresh entry for each selected file and nothing else.
C14_ReadRecovery ==
    /\ (reads = 1 /\ fileAtStart.kind # "valid") =>
          /\ loaded = EmptyMap
          /\ pc = "scan" => (fault = "none" /\ cache.urls = EmptyMap)
    /\ (Completed /\ fileAtStart.kind # "valid") =>
          /\ extracted = SelectedPaths
          /\ cacheFile.urls = results
          /\ DOMAIN results = SelectedPaths
          /\ \A p \in SelectedPaths :
                results[p] = [patterns |-> extract_url_patterns(ReadToString(p)),
                              mtime |-> files[p].mtime]

\* a completed scan of a tree with a selected file, started beside a
\* damaged cache file in which entries of an earlier scan can be made out
C14_Witness ==
    /\ Completed
    /\ fileAtStart.kind = "broken"
    /\ fileAtStart.urls # EmptyMap
    /\ results # EmptyMap

\* C17 as stated: the cache file a completed run has written carries the
\* version of the producer that ran, whatever version the cache file the
\* run started from carried.
C17_ProducerVersion ==
    Completed => cacheFile.version = CARGO_PKG_VERSION

\* C13 as stated: in the cache a completed run has written, an entry this
\* run extracted has the extractor's output for the content the file had
\* when it carried the entry's modification time, and every entry whose
\* mtime is the file's present modification time has the extractor's
\* output for the file's present content, whatever edits the file has had.
C13_FileEntryInvariant ==
    Completed =>
        /\ \A p \in extracted :
              cacheFile.urls[p].mtime = statted[p].mtime =>
                  cacheFile.urls[p].patterns
                      = extract_url_patterns(ContentOf(statted[p].content))
        /\ \A p \in DOMAIN cacheFile.urls :
              (files[p].kind = "file"
                   /\ cacheFile.urls[p].mtime = files[p].mtime) =>
                  cacheFile.urls[p].patterns
                      = extract_url_patterns(ReadToString(p))

===========================================================================
